---- MODULE Spec2Model ----
(***************************************************************************)
(* A model of the two numeric routines of the notebook                     *)
(* src/unnamed/part_000: the Metropolis sampler `metropolis` and the       *)
(* character bigram estimator `numerify` / `learn_bigram`.                 *)
(*                                                                         *)
(* Positions are points of a one-dimensional integer lattice, the target   *)
(* density is a table of non-negative integers (only comparisons and       *)
(* ratios of densities are used by the code), and the uniform draw from    *)
(* [0,1) is one of the fractions 0/UDen .. (UDen-1)/UDen.                  *)
(***************************************************************************)
EXTENDS Integers, Sequences, FiniteSets, TLC

VARIABLES
    \* ---- metropolis(p, q, x_init, n) ----
    density,    \* the table of the callable p on Support (0 elsewhere)
    qsupport,   \* the set of offsets the callable q() can return
    numeric,    \* the number type p returns: "python" float or "numpy" float64
    x_init,     \* argument x_init
    n,          \* argument n
    x,          \* local x, the current position
    samples,    \* local samples (the accepted sequence)
    rejected,   \* local rejected
    i,          \* loop counter of `for i in range(n)`
    x_prime,    \* local x_prime of the last iteration (None before the first)
    u,          \* numerator of the last np.random.uniform(0,1) draw (None if none)
    branch,     \* the branch the last iteration took
    pc,         \* "loop", "done" (returned), "error" (raised), "idle"
    \* ---- learn_bigram(string) ----
    strtype,    \* "str" (byte string, C locale) or "unicode"
    string,     \* argument string, a sequence of code points
    coded,      \* local coded = numerify(string)
    joint,      \* local joint, the 27x27 count matrix
    k,          \* position of the pair loop: the next pair is (coded[k], coded[k+1])
    bigram_ret, \* first return value (bigram.T), <<>> before the return
    joint_ret,  \* second return value (joint.T), <<>> before the return
    pcB,        \* "call", "count", "normalise", "done", "error" (IndexError), "idle"
    \* ---- log_likelihood_bigram(string, bigram) ----
    text,       \* argument string, a sequence of code points
    symbols,    \* local symbols = numerify(string)
    llik,       \* local llik, in units of 1e-6
    logargs,    \* the quotients whose value + 1e-8 was passed to np.log so far
    kL,         \* position of the pair loop of the scorer
    pcL,        \* "idle", "loop", "done", "error" (IndexError)
    \* ---- compare_logp(fname) and the two fitted models ----
    macbeth_txt,           \* the content of data/macbeth.txt
    metamorphosis_txt,     \* the content of data/metamorphosis.txt
    macbeth_bigram,        \* global macbeth_bigram
    metamorphosis_bigram,  \* global metamorphosis_bigram
    ctext,      \* local text = f.read()
    mb_llik,    \* local mb_llik, a quotient [num, den]
    mm_llik,    \* local mm_llik, a quotient [num, den]
    favours,    \* the model the last line printed names
    pcC         \* "idle", "fit_macbeth", "fit_metamorphosis", "fitted", "call",
                \* "scored", "done", "error" (ZeroDivisionError)

mvars == <<density, qsupport, numeric, x_init, n, x, samples, rejected, i,
           x_prime, u, branch, pc>>

bvars == <<strtype, string, coded, joint, k, bigram_ret, joint_ret, pcB>>

lvars == <<text, symbols, llik, logargs, kL, pcL>>

cvars == <<macbeth_txt, metamorphosis_txt, macbeth_bigram,
           metamorphosis_bigram, ctext, mb_llik, mm_llik, favours, pcC>>

vars == <<mvars, bvars, lvars, cvars>>

\* the Python value None: no position and no draw
None == 0 - 1000

\* ---- bounds of the model ----
MaxN == 3        \* largest iteration count n
PMax == 2        \* largest value of the density table
UDen == 2        \* the uniform draw is r/UDen, r in 0..UDen-1
SupHi == 2       \* the density is non-zero at most on 0..SupHi

Support == 0..SupHi
XInits == 0..1
QSupports == {{0}, {-1, 0, 1}}

\* the callable p: the unnormalised target density at position y
p(y) == IF y \in DOMAIN density THEN density[y] ELSE 0

Last(s) == s[Len(s)]

\* line 123: if p(x_prime) > p(x)
Better_ge(xp) == p(xp) >= p(x)
Better(xp) == p(xp) > p(x)

\* lines 129-130: pa = p(x_prime)/p(x); np.random.uniform(0,1) < pa, for the
\* draw r/UDen and p(x) > 0:  r/UDen < p(xp)/p(x)
RatioAccept_le(xp, r) == r * p(x) <= p(xp) * UDen
RatioAccept_half(xp, r) == 2 * r * p(x) < p(xp) * UDen
RatioAccept(xp, r) == r * p(x) < p(xp) * UDen

\* lines 124-125 and 131-132: x = x_prime; samples.append(x_prime)
Accept_keepsX(xp) ==
    /\ samples' = Append(samples, xp)
    /\ UNCHANGED <<x, rejected>>
Accept_burnsFirst(xp) ==
    /\ x' = xp
    /\ samples' = IF i = 0 THEN samples ELSE Append(samples, xp)
    /\ UNCHANGED rejected
Accept(xp) ==
    /\ x' = xp
    /\ samples' = Append(samples, xp)
    /\ UNCHANGED rejected

\* line 134: rejected.append(x_prime)
Reject_drops(xp) ==
    /\ UNCHANGED <<x, samples, rejected>>
Reject_moves(xp) ==
    /\ x' = xp
    /\ rejected' = Append(rejected, xp)
    /\ UNCHANGED samples
Reject(xp) ==
    /\ rejected' = Append(rejected, xp)
    /\ UNCHANGED <<x, samples>>

\* learn_bigram is not running
BigramIdle ==
    /\ strtype = "str"
    /\ string = <<>>
    /\ coded = <<>>
    /\ joint = <<>>
    /\ k = 0
    /\ bigram_ret = <<>>
    /\ joint_ret = <<>>
    /\ pcB = "idle"

\* log_likelihood_bigram is not running
ScoreIdle ==
    /\ text = <<>>
    /\ symbols = <<>>
    /\ llik = 0
    /\ logargs = <<>>
    /\ kL = 0
    /\ pcL = "idle"

\* compare_logp is not running and no model is fitted
CompareIdle ==
    /\ macbeth_txt = <<>>
    /\ metamorphosis_txt = <<>>
    /\ macbeth_bigram = <<>>
    /\ metamorphosis_bigram = <<>>
    /\ ctext = <<>>
    /\ mb_llik = <<>>
    /\ mm_llik = <<>>
    /\ favours = "none"
    /\ pcC = "idle"

Inputs == <<density, qsupport, numeric, x_init, n>>

\* lines 119-125: an iteration whose candidate is strictly better
IterBetter ==
    /\ pc = "loop" /\ i < n
    /\ \E d \in qsupport :
         LET xp == x + d IN
         /\ Better(xp)
         /\ x_prime' = xp
         /\ Accept(xp)
         /\ u' = None
         /\ branch' = "better"
    /\ i' = i + 1
    /\ UNCHANGED <<Inputs, pc, bvars, lvars, cvars>>

\* lines 119-134: an iteration that evaluates the ratio with p(x) > 0
IterRatio ==
    /\ pc = "loop" /\ i < n
    /\ \E d \in qsupport, r \in 0..(UDen - 1) :
         LET xp == x + d IN
         /\ ~Better(xp)
         /\ p(x) # 0
         /\ x_prime' = xp
         /\ u' = r
         /\ IF RatioAccept(xp, r)
              THEN Accept(xp) /\ branch' = "ratio_accept"
              ELSE Reject(xp) /\ branch' = "ratio_reject"
    /\ i' = i + 1
    /\ UNCHANGED <<Inputs, pc, bvars, lvars, cvars>>

\* line 129 with p(x) = 0: p(x_prime)/p(x) divides by zero.  A Python
\* float raises ZeroDivisionError and the call does not return; a numpy
\* float64 yields nan (0/0), the comparison with the draw is False and the
\* candidate is rejected.
IterDivZero ==
    /\ pc = "loop" /\ i < n
    /\ \E d \in qsupport, r \in 0..(UDen - 1) :
         LET xp == x + d IN
         /\ ~Better(xp)
         /\ p(x) = 0
         /\ x_prime' = xp
         /\ branch' = "divzero"
         /\ IF numeric = "python"
              THEN /\ pc' = "error"
                   /\ u' = None
                   /\ UNCHANGED <<x, samples, rejected, i>>
              ELSE /\ u' = r
                   /\ Reject(xp)
                   /\ i' = i + 1
                   /\ pc' = pc
    /\ UNCHANGED <<Inputs, bvars, lvars, cvars>>

\* line 136: return np.array(samples), np.array(rejected)
Return ==
    /\ pc = "loop" /\ i = n
    /\ pc' = "done"
    /\ UNCHANGED <<Inputs, x, samples, rejected, i, x_prime, u, branch, bvars, lvars, cvars>>

\* lines 114-118: the state on entry to the loop
Init ==
    /\ density \in [Support -> 0..PMax]
    /\ qsupport \in QSupports
    /\ numeric \in {"python", "numpy"}
    /\ x_init \in XInits
    /\ n \in 0..MaxN
    /\ x = x_init
    /\ samples = <<>>
    /\ rejected = <<>>
    /\ i = 0
    /\ x_prime = None
    /\ u = None
    /\ branch = "none"
    /\ pc = "loop"
    /\ BigramIdle
    /\ ScoreIdle
    /\ CompareIdle

Next == IterBetter \/ IterRatio \/ IterDivZero \/ Return

Spec == Init /\ [][Next]_vars

(***************************************************************************)
(* numerify and learn_bigram                                               *)
(*                                                                         *)
(* A character is its code point.  A quotient c / (t + 1e-6) of the        *)
(* normalisation is kept exactly, as the record [cnt |-> c, tot |-> t].    *)
(***************************************************************************)

MaxLen == 3      \* longest input text

NSym == 27       \* np.zeros((27,27))
OrdA == 97       \* ord('a')
EpsInv == 1000000  \* 1 / 1e-6

Sym == 0..(NSym - 1)

\* the characters texts are made of: ' ', 'a', 'B', 'z', '1',
\* e-acute (U+00E9) and the no-break space (U+00A0)
Chars == {32, 97, 66, 122, 49, 233, 160}

Texts == UNION {[1..m -> Chars] : m \in 0..MaxLen}

AsciiUpper == 65..90
AsciiLower == 97..122
Latin1Upper == (192..222) \ {215}
Latin1Lower == (223..255) \ {247}

\* c.isalpha(): for a byte string in the C locale the ASCII letters, for a
\* unicode string every letter
isalpha(c) ==
    \/ c \in AsciiUpper \cup AsciiLower
    \/ strtype = "unicode" /\ c \in Latin1Upper \cup Latin1Lower

\* c.isspace()
isspace(c) ==
    \/ c \in (9..13) \cup {32}
    \/ strtype = "unicode" /\ c \in (28..31) \cup {133, 160}

\* c.lower()
lower(c) ==
    IF c \in AsciiUpper THEN c + 32
    ELSE IF strtype = "unicode" /\ c \in Latin1Upper THEN c + 32
    ELSE c

\* ord(c)
ord(c) == c

Max(a, b) == IF a >= b THEN a ELSE b

\* line 272: max(1+ord(c.lower()) - ord('a'), 0)
Code(c) == Max(1 + ord(lower(c)) - OrdA, 0)

\* line 272: ... for c in string if c.isalpha() or c.isspace()
Kept(c) == isalpha(c) \/ isspace(c)

\* lines 269-273
numerify(s) ==
    LET kept == SelectSeq(s, Kept)
    IN  [j \in 1..Len(kept) |-> Code(kept[j])]

RECURSIVE SumUpTo(_, _)
SumUpTo(f, m) == IF m < 0 THEN 0 ELSE f[m] + SumUpTo(f, m - 1)

\* line 278: np.zeros((27,27))
Zeros_ones == [a \in Sym, b \in Sym |-> 1]
Zeros == [a \in Sym, b \in Sym |-> 0]

\* M.T
Transpose(M) == [a \in Sym, b \in Sym |-> M[b, a]]

\* the sum of column b of M
ColSum(M, b) == SumUpTo([a \in Sym |-> M[a, b]], NSym - 1)

\* np.sum(M, axis=0): the vector of the column sums of M, as a sequence
\* whose element b + 1 is the sum of column b
RECURSIVE ColSumsUpTo(_, _)
ColSumsUpTo(M, b) ==
    IF b < 0 THEN <<>> ELSE Append(ColSumsUpTo(M, b - 1), ColSum(M, b))
SumAxis0(M) == ColSumsUpTo(M, NSym - 1)

\* M / (v + 1e-6): v is broadcast along the last axis
DivEps(M, v) == [a \in Sym, b \in Sym |-> [cnt |-> M[a, b], tot |-> v[b + 1]]]

\* line 283: bigram = joint.T / (np.sum(joint, axis=0)+1e-6)
Normalise_addOne(J) ==
    DivEps([a \in Sym, b \in Sym |-> J[b, a] + 1], SumAxis0(J))
Normalise(J) == DivEps(Transpose(J), SumAxis0(J))

\* line 277: coded = numerify(string); line 278
Numerify ==
    /\ pcB = "call"
    /\ coded' = numerify(string)
    /\ joint' = Zeros
    /\ k' = 1
    /\ pcB' = "count"
    /\ UNCHANGED <<strtype, string, bigram_ret, joint_ret, mvars, lvars, cvars>>

\* lines 280-281: for prev, this in zip(coded[:-1], coded[1:]):
\*                    joint[prev, this] += 1
CountPair_skipsRepeat ==
    /\ pcB = "count"
    /\ k <= Len(coded) - 1
    /\ LET prev == coded[k]
           this == coded[k + 1]
       IN  /\ prev \in Sym /\ this \in Sym
           /\ joint' = IF joint[prev, this] > 0 THEN joint
                       ELSE [joint EXCEPT ![prev, this] = @ + 1]
    /\ k' = k + 1
    /\ UNCHANGED <<strtype, string, coded, bigram_ret, joint_ret, pcB, mvars, lvars, cvars>>
CountPair ==
    /\ pcB = "count"
    /\ k <= Len(coded) - 1
    /\ LET prev == coded[k]
           this == coded[k + 1]
       IN  /\ prev \in Sym /\ this \in Sym
           /\ joint' = [joint EXCEPT ![prev, this] = @ + 1]
    /\ k' = k + 1
    /\ UNCHANGED <<strtype, string, coded, bigram_ret, joint_ret, pcB, mvars, lvars, cvars>>

\* line 281 with an index outside 0..26: numpy raises IndexError
CountIndexError ==
    /\ pcB = "count"
    /\ k <= Len(coded) - 1
    /\ ~(coded[k] \in Sym /\ coded[k + 1] \in Sym)
    /\ pcB' = "error"
    /\ UNCHANGED <<strtype, string, coded, joint, k, bigram_ret, joint_ret, mvars, lvars, cvars>>

\* lines 283-284: return bigram.T, joint.T
NormaliseAndReturn ==
    /\ pcB = "count"
    /\ k > Len(coded) - 1
    /\ bigram_ret' = Transpose(Normalise(joint))
    /\ joint_ret' = Transpose(joint)
    /\ pcB' = "done"
    /\ UNCHANGED <<strtype, string, coded, joint, k, mvars, lvars, cvars>>

\* metropolis is not running
MetropolisIdle ==
    /\ density = [y \in Support |-> 0]
    /\ qsupport = {0}
    /\ numeric = "python"
    /\ x_init = 0
    /\ n = 0
    /\ x = 0
    /\ samples = <<>>
    /\ rejected = <<>>
    /\ i = 0
    /\ x_prime = None
    /\ u = None
    /\ branch = "none"
    /\ pc = "idle"

\* the call learn_bigram(string)
InitBigram ==
    /\ strtype \in {"str", "unicode"}
    /\ string \in Texts
    /\ coded = <<>>
    /\ joint = <<>>
    /\ k = 0
    /\ bigram_ret = <<>>
    /\ joint_ret = <<>>
    /\ pcB = "call"
    /\ MetropolisIdle
    /\ ScoreIdle
    /\ CompareIdle

NextBigram == Numerify \/ CountPair \/ CountIndexError \/ NormaliseAndReturn

SpecBigram == InitBigram /\ [][NextBigram]_vars

(***************************************************************************)
(* log_likelihood_bigram                                                   *)
(*                                                                         *)
(* np.log is kept in fixed point: LnMicro(q) is the natural logarithm of   *)
(* q.cnt / (q.tot + 1e-6) + 1e-8 in units of 1e-6, rounded to the nearest  *)
(* unit.                                                                   *)
(***************************************************************************)

MaxTrain == 3    \* longest training text of the scoring runs
MaxScore == 3    \* longest scored text

\* the characters of the scoring runs: 'a', ' ', '1' and e-acute
ScoreChars == {97, 32, 49, 233}

TrainTexts == UNION {[1..m -> ScoreChars] : m \in 0..MaxTrain}
ScoreTexts == UNION {[1..m -> ScoreChars] : m \in 0..MaxScore}

\* 10^6 * ln(c / (t + 1e-6) + 1e-8), rounded, at [c + 1][t + 1], c, t in 0..12
LnTable == <<
    <<-18420681, -18420681, -18420681, -18420681, -18420681, -18420681, -18420681, -18420681, -18420681, -18420681, -18420681, -18420681, -18420681>>,
    <<13815511, -1, -693148, -1098613, -1386295, -1609438, -1791760, -1945910, -2079442, -2197225, -2302585, -2397895, -2484907>>,
    <<14508658, 693146, 0, -405465, -693147, -916291, -1098612, -1252763, -1386294, -1504077, -1609438, -1704748, -1791759>>,
    <<14914123, 1098611, 405465, 0, -287682, -510826, -693147, -847298, -980829, -1098612, -1203973, -1299283, -1386294>>,
    <<15201805, 1386293, 693147, 287682, 0, -223144, -405465, -559616, -693147, -810930, -916291, -1011601, -1098612>>,
    <<15424948, 1609437, 916290, 510825, 223143, 0, -182322, -336472, -470004, -587787, -693147, -788457, -875469>>,
    <<15607270, 1791758, 1098612, 693147, 405465, 182321, 0, -154151, -287682, -405465, -510826, -606136, -693147>>,
    <<15761421, 1945909, 1252762, 847298, 559616, 336472, 154151, 0, -133532, -251315, -356675, -451985, -538997>>,
    <<15894952, 2079441, 1386294, 980829, 693147, 470003, 287682, 133531, 0, -117783, -223144, -318454, -405465>>,
    <<16012735, 2197224, 1504077, 1098612, 810930, 587786, 405465, 251314, 117783, 0, -105361, -200671, -287682>>,
    <<16118096, 2302584, 1609437, 1203972, 916290, 693147, 510825, 356675, 223143, 105360, 0, -95310, -182322>>,
    <<16213406, 2397894, 1704748, 1299283, 1011601, 788457, 606136, 451985, 318454, 200671, 95310, 0, -87011>>,
    <<16300417, 2484906, 1791759, 1386294, 1098612, 875469, 693147, 538996, 405465, 287682, 182321, 87011, 0>>
>>

\* line 371: np.log(q + 1e-8) for the quotient q
LnMicro(q) == LnTable[q.cnt + 1][q.tot + 1]

\* line 371: bigram[prev, this]
Lookup_transposed(B, prev, this) == B[this, prev]
Lookup(B, prev, this) == B[prev, this]

\* lines 367-368: symbols = numerify(string); llik = 0, for a scored text
\* and the model learn_bigram returned
ScoreCall ==
    /\ pcB = "done" /\ pcL = "idle"
    /\ \E t \in ScoreTexts :
         /\ text' = t
         /\ symbols' = numerify(t)
    /\ llik' = 0
    /\ logargs' = <<>>
    /\ kL' = 1
    /\ pcL' = "loop"
    /\ UNCHANGED <<mvars, bvars, cvars>>

\* lines 370-371: for prev, this in zip(symbols[:-1], symbols[1:]):
\*                    llik += np.log(bigram[prev, this]+1e-8)
ScorePair ==
    /\ pcL = "loop"
    /\ kL <= Len(symbols) - 1
    /\ LET prev == symbols[kL]
           this == symbols[kL + 1]
       IN  /\ prev \in Sym /\ this \in Sym
           /\ llik' = llik + LnMicro(Lookup(bigram_ret, prev, this))
           /\ logargs' = Append(logargs, Lookup(bigram_ret, prev, this))
    /\ kL' = kL + 1
    /\ UNCHANGED <<text, symbols, pcL, mvars, bvars, cvars>>

\* line 371 with an index outside 0..26: numpy raises IndexError
ScoreIndexError ==
    /\ pcL = "loop"
    /\ kL <= Len(symbols) - 1
    /\ ~(symbols[kL] \in Sym /\ symbols[kL + 1] \in Sym)
    /\ pcL' = "error"
    /\ UNCHANGED <<text, symbols, llik, logargs, kL, mvars, bvars, cvars>>

\* line 372: return llik
ScoreReturn ==
    /\ pcL = "loop"
    /\ kL > Len(symbols) - 1
    /\ pcL' = "done"
    /\ UNCHANGED <<text, symbols, llik, logargs, kL, mvars, bvars, cvars>>

\* learn_bigram(string) on a training text, then log_likelihood_bigram
InitScore ==
    /\ strtype = "unicode"
    /\ string \in TrainTexts
    /\ coded = <<>>
    /\ joint = <<>>
    /\ k = 0
    /\ bigram_ret = <<>>
    /\ joint_ret = <<>>
    /\ pcB = "call"
    /\ MetropolisIdle
    /\ ScoreIdle
    /\ CompareIdle

NextScore ==
    \/ Numerify \/ CountPair \/ CountIndexError \/ NormaliseAndReturn
    \/ ScoreCall \/ ScorePair \/ ScoreIndexError \/ ScoreReturn

SpecScore == InitScore /\ [][NextScore]_vars

(***************************************************************************)
(* learn_bigram and log_likelihood_bigram as functions of their            *)
(* arguments, and compare_logp                                             *)
(*                                                                         *)
(* A per-character score llik / len(text) is kept exactly, as the record   *)
(* [num |-> llik, den |-> len(text)].                                      *)
(***************************************************************************)

MaxCmp == 3      \* longest text compare_logp is called on
Reps == 2        \* repetitions of the phrase in the two long texts

\* the characters of the compared texts: 'a', 'b', '1'
CmpChars == {97, 98, 49}

CmpTexts == UNION {[1..m -> CmpChars] : m \in 0..MaxCmp}

\* small training texts of the two models: "ab", "aab" and "ba", "ab"
MacbethTexts == {<<97, 98>>, <<97, 97, 98>>}
MetamorphosisTexts == {<<98, 97>>, <<97, 98>>}

RECURSIVE Repeat(_, _)
Repeat(unit, r) == IF r = 0 THEN <<>> ELSE unit \o Repeat(unit, r - 1)

\* "the cat sat " and "xyz qqq zzz ", repeated
TheCat == Repeat(<<116, 104, 101, 32, 99, 97, 116, 32, 115, 97, 116, 32>>, Reps)
Xyz == Repeat(<<120, 121, 122, 32, 113, 113, 113, 32, 122, 122, 122, 32>>, Reps)

\* lines 370-371 as a fold: the scorer's loop from pair j on
RECURSIVE ScoreFrom_prevOnly(_, _, _)
ScoreFrom_prevOnly(sym, j, B) ==
    IF j > Len(sym) - 1 THEN 0
    ELSE LnMicro(Lookup(B, sym[j], sym[j])) + ScoreFrom_prevOnly(sym, j + 1, B)
RECURSIVE ScoreFrom(_, _, _)
ScoreFrom(sym, j, B) ==
    IF j > Len(sym) - 1 THEN 0
    ELSE LnMicro(Lookup(B, sym[j], sym[j + 1])) + ScoreFrom(sym, j + 1, B)

\* lines 366-372: log_likelihood_bigram(s, B), for a text whose indices
\* are in range
log_likelihood_bigram(s, B) == ScoreFrom(numerify(s), 1, B)

\* lines 389-390: llik / len(text)
PerChar(l, t) == [num |-> l, den |-> Len(t)]

\* line 391: mb_llik - mm_llik
QuotDiff(q1, q2) ==
    IF q1.den = q2.den
        THEN [num |-> q1.num - q2.num, den |-> q1.den]
        ELSE [num |-> q1.num * q2.den - q2.num * q1.den, den |-> q1.den * q2.den]

\* lines 393-396: if diff>0: Macbeth, else: Metamorphosis
Favours_ge(d) == IF d.num >= 0 THEN "Macbeth" ELSE "Metamorphosis"
Favours(d) == IF d.num > 0 THEN "Macbeth" ELSE "Metamorphosis"

\* the training texts of the two models: small texts, or the two long texts
TrainingFiles ==
    {<<t1, t2>> : t1 \in MacbethTexts, t2 \in MetamorphosisTexts}
        \cup {<<TheCat, Xyz>>}

\* the files compare_logp is called on
ComparedFiles == CmpTexts \cup {TheCat, Xyz}

\* lines 298-301: learn_bigram has returned the first model; the second
\* call learn_bigram(f.read()) starts.  macbeth_joint is never read again
\* and is left out.
AssignMacbeth ==
    /\ pcC = "fit_macbeth"
    /\ pcB = "done"
    /\ macbeth_bigram' = bigram_ret
    /\ string' = metamorphosis_txt
    /\ coded' = <<>>
    /\ joint' = <<>>
    /\ k' = 0
    /\ bigram_ret' = <<>>
    /\ joint_ret' = <<>>
    /\ pcB' = "call"
    /\ pcC' = "fit_metamorphosis"
    /\ UNCHANGED <<strtype, macbeth_txt, metamorphosis_txt,
                   metamorphosis_bigram, ctext, mb_llik, mm_llik, favours,
                   mvars, lvars>>

\* line 301: learn_bigram has returned the second model
AssignMetamorphosis ==
    /\ pcC = "fit_metamorphosis"
    /\ pcB = "done"
    /\ metamorphosis_bigram' = bigram_ret
    /\ pcC' = "fitted"
    /\ UNCHANGED <<macbeth_txt, metamorphosis_txt, macbeth_bigram, ctext,
                   mb_llik, mm_llik, favours, mvars, bvars, lvars>>

\* lines 400-403 and 386-387: compare_logp(fname); text = f.read()
CompareCall ==
    /\ pcC = "fitted"
    /\ \E t \in ComparedFiles : ctext' = t
    /\ pcC' = "call"
    /\ UNCHANGED <<macbeth_txt, metamorphosis_txt, macbeth_bigram,
                   metamorphosis_bigram, mb_llik, mm_llik, favours, mvars,
                   bvars, lvars>>

\* lines 388-390: the two per-character scores of a text that is not empty
CompareScore ==
    /\ pcC = "call"
    /\ Len(ctext) > 0
    /\ mb_llik' = PerChar(log_likelihood_bigram(ctext, macbeth_bigram), ctext)
    /\ mm_llik' = PerChar(log_likelihood_bigram(ctext, metamorphosis_bigram), ctext)
    /\ pcC' = "scored"
    /\ UNCHANGED <<macbeth_txt, metamorphosis_txt, macbeth_bigram,
                   metamorphosis_bigram, ctext, favours, mvars, bvars, lvars>>

\* line 389 for an empty text: llik is the int 0 and 0 / len(text) raises
\* ZeroDivisionError
CompareEmpty ==
    /\ pcC = "call"
    /\ Len(ctext) = 0
    /\ pcC' = "error"
    /\ UNCHANGED <<macbeth_txt, metamorphosis_txt, macbeth_bigram,
                   metamorphosis_bigram, ctext, mb_llik, mm_llik, favours,
                   mvars, bvars, lvars>>

\* lines 391-396: diff and the line printed
CompareReport ==
    /\ pcC = "scored"
    /\ favours' = Favours(QuotDiff(mb_llik, mm_llik))
    /\ pcC' = "done"
    /\ UNCHANGED <<macbeth_txt, metamorphosis_txt, macbeth_bigram,
                   metamorphosis_bigram, ctext, mb_llik, mm_llik, mvars,
                   bvars, lvars>>

\* line 298: the first call learn_bigram(f.read()) starts; the files are
\* read by the byte-string f.read() of Python 2
InitCompare ==
    /\ strtype = "str"
    /\ \E files \in TrainingFiles :
         /\ macbeth_txt = files[1]
         /\ metamorphosis_txt = files[2]
    /\ string = macbeth_txt
    /\ coded = <<>>
    /\ joint = <<>>
    /\ k = 0
    /\ bigram_ret = <<>>
    /\ joint_ret = <<>>
    /\ pcB = "call"
    /\ MetropolisIdle
    /\ ScoreIdle
    /\ macbeth_bigram = <<>>
    /\ metamorphosis_bigram = <<>>
    /\ ctext = <<>>
    /\ mb_llik = <<>>
    /\ mm_llik = <<>>
    /\ favours = "none"
    /\ pcC = "fit_macbeth"

\* the letters and blanks of these files have indices in range, so the
\* IndexError of learn_bigram and of the scorer cannot occur
NextCompare ==
    \/ Numerify
    \/ CountPair
    \/ NormaliseAndReturn
    \/ AssignMacbeth
    \/ AssignMetamorphosis
    \/ CompareCall
    \/ CompareScore
    \/ CompareEmpty
    \/ CompareReport

SpecCompare == InitCompare /\ [][NextCompare]_vars

(***************************************************************************)
(* Claims about metropolis                                                 *)
(***************************************************************************)

\* an iteration of the loop has completed in this step
IterationDone == i' = i + 1

\* C1: after the call returns len(accepted) + len(rejected) = n, and each
\* completed loop iteration grows exactly one of the two sequences by
\* exactly one element.
C1_LengthsSumToN ==
    /\ [](Len(samples) + Len(rejected) = i)
    /\ [](pc = "done" => Len(samples) + Len(rejected) = n)
    /\ [][IterationDone =>
            \/ Len(samples') = Len(samples) + 1 /\ Len(rejected') = Len(rejected)
            \/ Len(rejected') = Len(rejected) + 1 /\ Len(samples') = Len(samples)]_vars

C1_Witness ==
    pc = "done" /\ n = MaxN /\ Len(samples) >= 1 /\ Len(rejected) >= 1

\* C2: the current position x is the last element of the accepted sequence,
\* or x_init when nothing has been accepted yet.
C2_CurrentIsLastAccepted ==
    x = IF samples = <<>> THEN x_init ELSE Last(samples)

C2_Witness ==
    Len(samples) >= 2 /\ x # x_init /\ Len(rejected) >= 1

\* C3: an element is appended to accepted only in an iteration where, with
\* x the position held before the iteration, either p(x') > p(x) and no
\* random number was drawn, or p(x') <= p(x) and the draw u satisfied
\* u < p(x')/p(x).
C3_AcceptanceRule ==
    [][Len(samples') = Len(samples) + 1 =>
         LET xp == Last(samples') IN
         \/ p(xp) > p(x) /\ u' = None
         \/ /\ p(xp) <= p(x)
            /\ p(x) > 0
            /\ u' \in 0..(UDen - 1)
            /\ u' * p(x) < p(xp) * UDen]_vars

C3_Witness ==
    branch = "ratio_accept" /\ u >= 1 /\ Len(samples) >= 2

\* C4 as stated: with q always returning zero, for every x_init, after the
\* call returns accepted has length n, rejected is empty and every accepted
\* element equals x_init.
C4_ZeroProposalAllAccepted ==
    (qsupport = {0} /\ pc = "done") =>
        /\ Len(samples) = n
        /\ rejected = <<>>
        /\ \A j \in 1..Len(samples) : samples[j] = x_init

\* C4 amended: the same, provided the density at x_init is strictly
\* positive; then no iteration raises either.
C4_ZeroProposalPositiveStart ==
    (qsupport = {0} /\ p(x_init) > 0) =>
        /\ pc # "error"
        /\ Len(samples) = i
        /\ rejected = <<>>
        /\ \A j \in 1..Len(samples) : samples[j] = x_init
        /\ pc = "done" => Len(samples) = n

C4_Witness ==
    qsupport = {0} /\ p(x_init) > 0 /\ pc = "done" /\ n = MaxN /\ Len(samples) = n

\* C5: a rejecting iteration appends the candidate to rejected and leaves
\* x and accepted unchanged; an accepting iteration sets x to the
\* candidate, appends it to accepted and leaves rejected unchanged.
C5_FrameOfAcceptAndReject ==
    [][IterationDone =>
         /\ x_prime' \in {x + d : d \in qsupport}
         /\ branch' \in {"ratio_reject", "divzero"} =>
              /\ rejected' = Append(rejected, x_prime')
              /\ x' = x
              /\ samples' = samples
         /\ branch' \in {"better", "ratio_accept"} =>
              /\ x' = x_prime'
              /\ samples' = Append(samples, x_prime')
              /\ rejected' = rejected]_vars

C5_Witness ==
    branch = "ratio_reject" /\ Len(samples) >= 1 /\ x_prime # x

\* an iteration is executed in this step (completed or raised)
IterationRun == pc = "loop" /\ i < n /\ (i' = i + 1 \/ pc' = "error")

\* C6 as stated: whenever p(x) = 0 in an iteration, the ratio step is
\* evaluated and divides by zero.
C6_ZeroDensityAlwaysDivides ==
    [][(IterationRun /\ p(x) = 0) => branch' = "divzero"]_vars

\* C6 amended: whenever p(x) = 0 and the candidate is not strictly better
\* (p(x') <= p(x)), the ratio step is evaluated and divides by zero; a
\* strictly better candidate is accepted without evaluating the ratio.
C6_ZeroDensityDividesUnlessBetter ==
    [][(IterationRun /\ p(x) = 0) =>
         /\ p(x_prime') <= p(x) => branch' = "divzero"
         /\ p(x_prime') > p(x) => branch' = "better" /\ x' = x_prime']_vars

C6_Witness ==
    branch = "divzero" /\ p(x) = 0 /\ p(x_prime) = 0

(***************************************************************************)
(* Claims about numerify and learn_bigram                                  *)
(***************************************************************************)

\* the number of adjacent pairs (a, b) of the sequence c
PairCount(c, a, b) ==
    Cardinality({j \in 1..(Len(c) - 1) : c[j] = a /\ c[j + 1] = b})

\* the number of adjacent pairs of c whose previous symbol is a
PredCount(c, a) == Cardinality({j \in 1..(Len(c) - 1) : c[j] = a})

\* the sum of row r of a matrix of quotients that share their divisor:
\* the sum of the numerators, over the divisor of the row
RowCnt(B, r) == SumUpTo([b \in Sym |-> B[r, b].cnt], NSym - 1)
RowTot(B, r) == B[r, 0].tot
RowSharesDivisor(B, r) == \A b \in Sym : B[r, b].tot = B[r, 0].tot

\* c / (t + 1e-6) <= 1, for integers c, t >= 0
AtMostOne(c, t) == c <= t

\* 1 - 1e-6 <= c / (t + 1e-6) <= 1, for integers c, t >= 0
NearOne(c, t) == c <= t /\ (t - c) * EpsInv + 1 <= t

\* c1 / (t1 + 1e-6) = c2 / (t2 + 1e-6)
SameQuotient(c1, t1, c2, t2) ==
    c1 * (t2 * EpsInv + 1) = c2 * (t1 * EpsInv + 1)

\* C7: for a nonempty filtered sequence, each row of the returned
\* conditional matrix that belongs to a symbol occurring as a predecessor
\* sums to 1 within 1e-6, and no row sums to more than 1.
C7_RowsSumToOne ==
    (pcB = "done" /\ coded # <<>>) =>
        \A r \in Sym :
            /\ RowSharesDivisor(bigram_ret, r)
            /\ AtMostOne(RowCnt(bigram_ret, r), RowTot(bigram_ret, r))
            /\ PredCount(coded, r) > 0 =>
                   NearOne(RowCnt(bigram_ret, r), RowTot(bigram_ret, r))

\* C8: the returned count matrix holds at [prev, curr] the number of
\* adjacent pairs (prev, curr) of the filtered sequence.
C8_ReturnedCountsArePairCounts ==
    pcB = "done" =>
        \A a \in Sym, b \in Sym : joint_ret[a, b] = PairCount(coded, a, b)

\* C9: each entry [prev, curr] of the returned conditional matrix equals
\* count(prev, curr) / (number of pairs whose previous symbol is prev + 1e-6).
C9_EntryIsCountOverRowSum ==
    pcB = "done" =>
        \A a \in Sym, b \in Sym :
            SameQuotient(bigram_ret[a, b].cnt, bigram_ret[a, b].tot,
                         PairCount(coded, a, b), PredCount(coded, a))

\* C10: every index numerify produces lies in 0..26, so indexing the
\* 27x27 matrix never goes out of range.
C10_IndicesInRange ==
    /\ pcB \in {"count", "done", "error"} =>
           \A j \in 1..Len(coded) : coded[j] \in Sym
    /\ pcB # "error"

\* the characters of s that numerify keeps, in their order
KeptChars(s) == SelectSeq(s, Kept)

\* the index of the letter c in the 27-symbol alphabet, case-folded
LetterIndex(c) == 1 + (IF c \in AsciiUpper THEN c + 32 ELSE c) - OrdA

\* C11: numerify yields one index per kept character, in input order; an
\* upper-case letter gets the index of its lower-case form and every
\* whitespace character gets index 0.
C11_OrderCaseAndWhitespace ==
    pcB \in {"count", "done", "error"} =>
        LET kept == KeptChars(string) IN
        /\ Len(coded) = Len(kept)
        /\ \A j \in 1..Len(kept) :
             /\ isspace(kept[j]) => coded[j] = 0
             /\ kept[j] \in AsciiUpper \cup AsciiLower =>
                    coded[j] = LetterIndex(kept[j])

\* the sum of all entries of the matrix M
RECURSIVE RowSumsUpTo(_, _)
RowSumsUpTo(M, r) ==
    IF r < 0 THEN 0
    ELSE SumUpTo([b \in Sym |-> M[r, b]], NSym - 1) + RowSumsUpTo(M, r - 1)
TotalCount(M) == RowSumsUpTo(M, NSym - 1)

\* c is two or more repetitions of one symbol
OneSymbolRepeated(c) == Len(c) >= 2 /\ \A j \in 1..Len(c) : c[j] = c[1]

\* C14: for a filtered sequence of k >= 2 repetitions of one symbol s the
\* returned count matrix has the single nonzero entry k - 1 at (s, s); in
\* general its entries sum to the number of adjacent pairs, max(L - 1, 0).
C14_CountsOfRepeatedSymbol ==
    pcB = "done" =>
        /\ TotalCount(joint_ret) = Max(Len(coded) - 1, 0)
        /\ OneSymbolRepeated(coded) =>
               \A a \in Sym, b \in Sym :
                   joint_ret[a, b] =
                       IF a = coded[1] /\ b = coded[1] THEN Len(coded) - 1 ELSE 0

C14_Witness ==
    pcB = "done" /\ OneSymbolRepeated(coded) /\ Len(coded) >= 3 /\ coded[1] >= 1

(***************************************************************************)
(* Burn-in and thinning, and further claims about metropolis               *)
(***************************************************************************)

MaxBurn == 2     \* largest burn-in tried
MaxThin == 2     \* largest thinning step tried

\* line 226: y[burn::thin], the elements at the 0-based indices
\* range(burn, len(y), thin)
RECURSIVE SliceFrom(_, _, _)
SliceFrom(s, j, step) ==
    IF j >= Len(s) THEN <<>> ELSE <<s[j + 1]>> \o SliceFrom(s, j + step, step)
BurnThin(s, burn, thin) == SliceFrom(s, burn, thin)

\* the 0-based indices burn, burn + thin, burn + 2*thin, ... below len
KeptIndices(len, burn, thin) ==
    {j \in 0..(len - 1) : j >= burn /\ (j - burn) % thin = 0}

\* t holds exactly the elements of s at the indices burn, burn + thin, ...
\* in their order
IsBurnThinOf(t, s, burn, thin) ==
    /\ Len(t) = Cardinality(KeptIndices(Len(s), burn, thin))
    /\ \A m \in 1..Len(t) : t[m] = s[burn + (m - 1) * thin + 1]

\* C16: metropolis applies no burn-in or thinning: every iteration, from
\* the first on, appends its candidate at the end of accepted or of
\* rejected and removes nothing, so both hold all their candidates in
\* iteration order; the caller's seq[burn::thin] keeps exactly the elements
\* at indices burn, burn + thin, ... and none before burn.
C16_NoBurnInOrThinningInside ==
    /\ [](Len(samples) + Len(rejected) = i)
    /\ [][IterationDone =>
            \/ /\ branch' \in {"better", "ratio_accept"}
               /\ samples' = Append(samples, x_prime')
               /\ rejected' = rejected
            \/ /\ branch' \in {"ratio_reject", "divzero"}
               /\ rejected' = Append(rejected, x_prime')
               /\ samples' = samples]_vars
    /\ [](pc = "done" =>
            \A burn \in 0..MaxBurn, thin \in 1..MaxThin :
                /\ IsBurnThinOf(BurnThin(samples, burn, thin), samples, burn, thin)
                /\ IsBurnThinOf(BurnThin(rejected, burn, thin), rejected, burn, thin))

C16_Witness ==
    /\ pc = "done" /\ Len(samples) >= 3
    /\ BurnThin(samples, 1, 2) = <<samples[2]>>
    /\ BurnThin(samples, 0, 2) = <<samples[1], samples[3]>>

\* C19: if p(x_init) > 0 (p being non-negative), then p(x) > 0 in every
\* reachable state: a candidate of density 0 is never accepted, and the
\* ratio step never divides by zero.
C19_PositiveDensityIsKept ==
    p(x_init) > 0 =>
        /\ p(x) > 0
        /\ \A j \in 1..Len(samples) : p(samples[j]) > 0
        /\ branch # "divzero"
        /\ pc # "error"

C19_Witness ==
    /\ p(x_init) > 0 /\ branch = "ratio_reject" /\ u = 0
    /\ p(x_prime) = 0 /\ Len(samples) >= 1

\* C20: with p(x) > 0, a candidate appended to rejected has strictly lower
\* density than the current position; a candidate with p(x') >= p(x) is
\* never rejected.
C20_RejectedIsStrictlyWorse ==
    [][(IterationDone /\ p(x) > 0) =>
         /\ Len(rejected') = Len(rejected) + 1 => p(Last(rejected')) < p(x)
         /\ p(x_prime') >= p(x) =>
                rejected' = rejected /\ samples' = Append(samples, x_prime')]_vars

C20_Witness ==
    /\ branch = "ratio_reject" /\ p(x_prime) > 0 /\ p(x_prime) < p(x)
    /\ Len(samples) >= 1

(***************************************************************************)
(* Claims about log_likelihood_bigram                                      *)
(***************************************************************************)

\* the sum of np.log over the quotients of the sequence a, in units of 1e-6
RECURSIVE SumLn(_, _)
SumLn(a, m) == IF m = 0 THEN 0 ELSE LnMicro(a[m]) + SumLn(a, m - 1)

\* C12: a text with fewer than 2 filtered symbols gives learn_bigram an
\* all-zero count matrix and an all-zero conditional matrix (each quotient
\* 0 / (0 + 1e-6), no division by zero); log_likelihood_bigram returns
\* exactly 0 for it under any model, and neither call raises.
C12_ShortTextsAreTrivial ==
    /\ (pcB \in {"count", "done", "error"} /\ Len(coded) < 2) => pcB # "error"
    /\ (pcB = "done" /\ Len(coded) < 2) =>
           \A a \in Sym, b \in Sym :
               /\ joint_ret[a, b] = 0
               /\ bigram_ret[a, b] = [cnt |-> 0, tot |-> 0]
    /\ (pcL \in {"loop", "done", "error"} /\ Len(symbols) < 2) => pcL # "error"
    /\ (pcL = "done" /\ Len(symbols) < 2) => llik = 0 /\ logargs = <<>>

C12_Witness ==
    /\ pcL = "done" /\ Len(symbols) = 1 /\ Len(text) >= 2 /\ llik = 0
    /\ Len(coded) >= 2 /\ string # text

\* C13: every scored pair contributes the logarithm of a strictly positive
\* finite number (a quotient c / (t + 1e-6) with c, t >= 0, plus 1e-8), the
\* returned log-likelihood is the finite sum of these, and a pair unseen in
\* training contributes exactly ln(1e-8).
C13_TermsArePositiveAndFinite ==
    pcL \in {"loop", "done"} =>
        /\ \A j \in 1..Len(logargs) :
             /\ logargs[j].cnt >= 0 /\ logargs[j].tot >= 0
             /\ PairCount(coded, symbols[j], symbols[j + 1]) = 0 =>
                    /\ logargs[j].cnt = 0
                    /\ LnMicro(logargs[j]) = LnMicro([cnt |-> 0, tot |-> 0])
        /\ llik = SumLn(logargs, Len(logargs))
        /\ llik \in Int
        /\ pcL = "done" => Len(logargs) = Max(Len(symbols) - 1, 0)

C13_Witness ==
    /\ pcL = "done" /\ Len(logargs) = 2
    /\ PairCount(coded, symbols[1], symbols[2]) = 0
    /\ PairCount(coded, symbols[2], symbols[3]) > 0
    /\ llik < LnMicro([cnt |-> 0, tot |-> 0])

\* C17: the matrix learn_bigram returns holds at [prev, this] a strictly
\* positive entry when the pair (prev, this) occurs in the training text
\* and exactly 0 when it does not, and log_likelihood_bigram reads the
\* model at [prev, this] for each pair (prev, this) it scores.
C17_FitAndScoreShareTheIndex ==
    /\ pcB = "done" =>
           \A a \in Sym, b \in Sym :
               /\ bigram_ret[a, b].tot >= 0
               /\ PairCount(coded, a, b) > 0 => bigram_ret[a, b].cnt > 0
               /\ PairCount(coded, a, b) = 0 => bigram_ret[a, b].cnt = 0
    /\ pcL \in {"loop", "done"} =>
           \A j \in 1..Len(logargs) :
               /\ logargs[j] = bigram_ret[symbols[j], symbols[j + 1]]
               /\ logargs[j].cnt > 0 <=>
                      PairCount(coded, symbols[j], symbols[j + 1]) > 0

C17_Witness ==
    /\ pcL = "done" /\ Len(logargs) >= 1
    /\ symbols[1] # symbols[2]
    /\ PairCount(coded, symbols[1], symbols[2]) > 0
    /\ PairCount(coded, symbols[2], symbols[1]) = 0
    /\ logargs[1].cnt > 0

(***************************************************************************)
(* Claims about compare_logp                                               *)
(***************************************************************************)

\* both per-character scores are those of the scorer over the text read
ScoresOfText ==
    /\ mb_llik.num = log_likelihood_bigram(ctext, macbeth_bigram)
    /\ mm_llik.num = log_likelihood_bigram(ctext, metamorphosis_bigram)

\* the models are those of "the cat sat " and of "xyz qqq zzz ", repeated
RoundTrip ==
    /\ pcC \in {"scored", "done"}
    /\ macbeth_txt = TheCat
    /\ metamorphosis_txt = Xyz

\* q1 > q2 for two per-character scores over the same positive length
HigherPerChar(q1, q2) == q1.den = q2.den /\ q1.den > 0 /\ q1.num > q2.num

\* C15: the repeated "the cat sat " scores strictly higher per character
\* under the model fitted on it than under the model fitted on the repeated
\* "xyz qqq zzz ", and the repeated "xyz qqq zzz " scores strictly higher
\* per character under its own model than under the other.
C15_OwnModelScoresHigher ==
    RoundTrip =>
        /\ ctext = TheCat => HigherPerChar(mb_llik, mm_llik)
        /\ ctext = Xyz => HigherPerChar(mm_llik, mb_llik)

C15_Witness ==
    /\ RoundTrip
    /\ pcC = "done"
    /\ ctext = TheCat
    /\ ScoresOfText
    /\ mb_llik.num > mm_llik.num
    /\ favours = "Macbeth"

\* the line printed names Macbeth exactly when its summed log-likelihood
\* is strictly the greater, and Metamorphosis otherwise
ReportsTheGreaterSum ==
    pcC = "done" =>
        favours = IF mb_llik.num > mm_llik.num THEN "Macbeth" ELSE "Metamorphosis"

\* C18 as stated: both sums are divided by the same number, every text
\* that is not empty is reported on, Macbeth exactly when its sum is
\* strictly the greater and Metamorphosis otherwise, and the divisor is the
\* number of symbols scored.
C18_DivisorIsSymbolsScored ==
    /\ pcC = "error" => Len(ctext) = 0
    /\ pcC \in {"scored", "done"} =>
        /\ ScoresOfText
        /\ mb_llik.den = mm_llik.den
        /\ mb_llik.den = Len(numerify(ctext))
    /\ ReportsTheGreaterSum

\* C18, amended: as above, but the divisor is len(text), the number of
\* characters read, the discarded ones included.
C18_DivisorIsTextLength ==
    /\ pcC = "error" => Len(ctext) = 0
    /\ pcC \in {"scored", "done"} =>
        /\ ScoresOfText
        /\ mb_llik.den = mm_llik.den
        /\ mb_llik.den = Len(ctext)
        /\ Len(ctext) > 0
    /\ ReportsTheGreaterSum

\* a tie over a text with a discarded character is reported as Metamorphosis
C18_Witness ==
    /\ pcC = "done"
    /\ Len(numerify(ctext)) > 1
    /\ Len(numerify(ctext)) < Len(ctext)
    /\ mb_llik.num = mm_llik.num
    /\ mb_llik.den = Len(ctext)
    /\ favours = "Metamorphosis"

(***************************************************************************)
(* Claims about the range of the fitted model                              *)
(***************************************************************************)

\* C21: every entry of the conditional matrix learn_bigram returns lies in
\* [0, 1], so every term log_likelihood_bigram adds under the fitted model
\* is at most ln(1 + 1e-8) (0 in units of 1e-6) and the running sum is
\* never positive.
C21_EntriesAreProbabilities ==
    /\ pcB = "done" =>
           \A a \in Sym, b \in Sym :
               /\ bigram_ret[a, b].cnt >= 0
               /\ AtMostOne(bigram_ret[a, b].cnt, bigram_ret[a, b].tot)
    /\ pcL \in {"loop", "done"} =>
           /\ \A j \in 1..Len(logargs) :
                /\ AtMostOne(logargs[j].cnt, logargs[j].tot)
                /\ LnMicro(logargs[j]) <= 0
           /\ llik <= 0

====
